---- MODULE Spec2Model ----
(***************************************************************************)
(* Model of scripts/create-dmg-background.py: create_background() and the  *)
(* command-line entry point.  Paths and formatted numbers are sequences of *)
(* one-character strings, so that str.replace, os.path.dirname and string  *)
(* concatenation are computed character by character as Python does.  The  *)
(* filesystem is a function from the files that exist to what they hold.   *)
(***************************************************************************)
EXTENDS Integers, Sequences, FiniteSets, TLC

VARIABLES
    fs,           \* the files on disk: path -> "svg" | "png"
    pc,           \* position inside the current invocation
    caller,       \* "none" | "api" (create_background called) | "main" (script run)
    output_path,  \* parameter of the current call
    width,        \* parameter of the current call
    height,       \* parameter of the current call
    svg_content,  \* local: the rendered document
    svg_path,     \* local: where the SVG is written
    generated,    \* local: the file expected from qlmanage (<<>> until computed)
    ret,          \* "none" | "True" | "False": what the call returned
    raised,       \* TRUE when an exception left create_background
    exit_status,  \* -1 while no process has exited, else the script's status
    printed,      \* lines printed by the current invocation
    tool,         \* outcome of the qlmanage run of the current call
    tool_args,    \* arguments qlmanage was run with (<<>> before the run)
    invocations,  \* number of qlmanage runs in the current call
    renamed,      \* "none" | "ok" | "failed": os.rename(generated, output_path)
    removed,      \* "none" | "ok" | "failed": os.remove(svg_path)
    ncalls,       \* invocations started so far
    prev          \* summary of the previous invocation, taken when the next starts

vars == <<fs, pc, caller, output_path, width, height, svg_content, svg_path,
          generated, ret, raised, exit_status, printed, tool, tool_args,
          invocations, renamed, removed, ncalls, prev>>

\* ------------------------------------------------------------------ bounds

MaxCalls == 2
MaxDim == 1

\* ------------------------------------------------------- program constants

DefaultWidth == 600
DefaultHeight == 400

DefaultOutput ==
    <<"d","m","g","_","b","a","c","k","g","r","o","u","n","d",".","p","n","g">>

PNG == <<".","p","n","g">>
SVG == <<".","s","v","g">>
Dot == <<".">>
Slash == "/"

FallbackNotice == "Created SVG background (PNG conversion not available)"
CreatedPrefix == "Created: "

\* ------------------------------------------------------------ input sets

ScriptName == <<"s">>

Paths ==
    { <<"o",".","p","n","g">>,
      <<"o">>,
      <<"o",".","p","n","g",".","p","n","g">>,
      <<"d","/","o",".","p","n","g">>,
      <<"d",".","p","n","g","/","o",".","p","n","g">> }

Argvs == { <<ScriptName>> } \cup { <<ScriptName, p>> : p \in Paths }

Widths == (1..MaxDim) \cup {DefaultWidth}
Heights == (1..MaxDim) \cup {DefaultHeight}

ToolOutcomes == {"missing", "nonzero", "ok_nofile", "ok_file"}

\* ------------------------------------------------------- string functions

\* str(n) of a non-negative int: its decimal digits
DigitChar(d) == <<"0","1","2","3","4","5","6","7","8","9">>[d + 1]

RECURSIVE Str(_)
Str(n) == IF n < 10 THEN <<DigitChar(n)>>
          ELSE Str(n \div 10) \o <<DigitChar(n % 10)>>

\* s.replace(old, new): every non-overlapping occurrence, left to right
RECURSIVE Replace(_, _, _)
Replace(s, old, new) ==
    IF Len(s) < Len(old) THEN s
    ELSE IF SubSeq(s, 1, Len(old)) = old
         THEN new \o Replace(SubSeq(s, Len(old) + 1, Len(s)), old, new)
         ELSE <<Head(s)>> \o Replace(Tail(s), old, new)

\* s.rfind('/') + 1
LastSlash(s) ==
    LET idx == {i \in 1..Len(s) : s[i] = Slash}
    IN IF idx = {} THEN 0 ELSE CHOOSE i \in idx : \A j \in idx : j <= i

RECURSIVE RStripSlash(_)
RStripSlash(s) ==
    IF s # <<>> /\ s[Len(s)] = Slash THEN RStripSlash(SubSeq(s, 1, Len(s) - 1))
    ELSE s

\* os.path.dirname (posixpath)
Dirname(p) ==
    LET head == SubSeq(p, 1, LastSlash(p))
    IN IF head # <<>> /\ \E i \in 1..Len(head) : head[i] # Slash
       THEN RStripSlash(head) ELSE head

\* os.path.basename (posixpath)
Basename(p) == SubSeq(p, LastSlash(p) + 1, Len(p))

\* os.path.dirname(output_path) or '.'
DirOrDot(p) == IF Dirname(p) = <<>> THEN Dot ELSE Dirname(p)

\* max(width, height)
Max(a, b) == IF a >= b THEN a ELSE b

\* ------------------------------------------------------------ filesystem

\* the file a path names: a leading "./" names the current directory
RECURSIVE File(_)
File(p) == IF Len(p) >= 2 /\ p[1] = "." /\ p[2] = Slash
           THEN File(SubSeq(p, 3, Len(p))) ELSE p

Exists(f, p) == File(p) \in DOMAIN f

Put(f, p, kind) ==
    [q \in DOMAIN f \cup {File(p)} |-> IF q = File(p) THEN kind ELSE f[q]]

Del(f, p) == [q \in DOMAIN f \ {File(p)} |-> f[q]]

\* os.rename(src, dst) on an existing src: dst is replaced; src = dst changes nothing
OsRename(f, src, dst) ==
    IF File(src) = File(dst) THEN f
    ELSE Put(Del(f, src), dst, f[File(src)])

OsRemoveKeeps(f, p) == f

\* os.remove(p) on an existing p
OsRemove(f, p) == Del(f, p)

NoFiles == [q \in {} |-> "svg"]

\* ------------------------------------------------------------ the document

TextXFull(w) == w

\* {width//2}: the x of the instruction text
TextX(w) == w \div 2

\* the f-string of lines 11-43, element by element in document order; every
\* attribute value is the text that appears between the quotes
SvgContent(w, h) ==
    << [tag |-> "svg", attrs |-> [width |-> Str(w), height |-> Str(h)]],
       [tag |-> "defs", attrs |-> <<>>],
       [tag |-> "linearGradient", attrs |-> [id |-> "bg"]],
       [tag |-> "stop", attrs |-> [offset |-> "0%", style |-> "stop-color:#2d2d2d"]],
       [tag |-> "stop", attrs |-> [offset |-> "100%", style |-> "stop-color:#1a1a1a"]],
       [tag |-> "rect", attrs |-> [width |-> Str(w), height |-> Str(h),
                                   fill |-> "url(#bg)"]],
       [tag |-> "defs", attrs |-> <<>>],
       [tag |-> "marker", attrs |-> [id |-> "arrowhead", orient |-> "auto"]],
       [tag |-> "polygon", attrs |-> [points |-> "0 0, 10 3.5, 0 7"]],
       [tag |-> "line", attrs |-> [x1 |-> <<"3","8","0">>, y1 |-> <<"2","0","0">>,
                                   x2 |-> <<"2","2","0">>, y2 |-> <<"2","0","0">>,
                                   dasharray |-> "10,5",
                                   marker_end |-> "url(#arrowhead)"]],
       [tag |-> "text", attrs |-> [x |-> Str(TextX(w)), y |-> <<"3","4","0">>,
                                   anchor |-> "middle"],
        body |-> "Drag Extremis to Applications to install"] >>

\* ------------------------------------------------------------ path locals

\* svg_path = output_path.replace('.png', '.svg')
SvgPath(p) == Replace(p, PNG, SVG)

\* generated = svg_path + '.png'
Generated(sp) == sp \o PNG

\* what qlmanage -t -o <outdir> <input> writes: <outdir>/<name of input>.png
ToolOutput(args) == args.outdir \o <<Slash>> \o Basename(args.input) \o PNG

RemoveAnyway(ok) == "remove"

\* where control goes after os.rename(generated, output_path): an exception
\* is caught by the bare except and falls through to the fallback
AfterRename(ok) == IF ok THEN "remove" ELSE "fallback"

\* ------------------------------------------------------------------- state

NoCall == [path |-> <<>>, tool |-> "none", nominal |-> FALSE, fs |-> NoFiles]

Init ==
    /\ fs = NoFiles
    /\ pc = "idle"
    /\ caller = "none"
    /\ output_path = <<>>
    /\ width = DefaultWidth
    /\ height = DefaultHeight
    /\ svg_content = <<>>
    /\ svg_path = <<>>
    /\ generated = <<>>
    /\ ret = "none"
    /\ raised = FALSE
    /\ exit_status = -1
    /\ printed = <<>>
    /\ tool = "none"
    /\ tool_args = <<>>
    /\ invocations = 0
    /\ renamed = "none"
    /\ removed = "none"
    /\ ncalls = 0
    /\ prev = NoCall

\* create_background has returned or raised
CallOver == pc \in {"done", "exited"}

\* no invocation is in progress
CanStart ==
    /\ ncalls < MaxCalls
    /\ \/ pc = "idle"
       \/ pc = "exited"
       \/ pc = "done" /\ caller = "api"

\* every I/O step of the invocation went through without an error
Nominal == ~raised /\ renamed # "failed" /\ removed # "failed"

\* entry into create_background: parameters bound, lines 11-45 evaluated
Enter(who, p, w, h) ==
    /\ CanStart
    /\ prev' = IF pc = "idle" THEN prev
               ELSE [path |-> output_path, tool |-> tool, nominal |-> Nominal,
                     fs |-> fs]
    /\ ncalls' = ncalls + 1
    /\ caller' = who
    /\ output_path' = p
    /\ width' = w
    /\ height' = h
    /\ svg_content' = SvgContent(w, h)
    /\ svg_path' = SvgPath(p)
    /\ generated' = <<>>
    /\ ret' = "none"
    /\ raised' = FALSE
    /\ exit_status' = -1
    /\ printed' = <<>>
    /\ tool' = "none"
    /\ tool_args' = <<>>
    /\ invocations' = 0
    /\ renamed' = "none"
    /\ removed' = "none"
    /\ pc' = "write"
    /\ UNCHANGED fs

\* a caller invokes create_background(output_path, width, height)
Call == \E p \in Paths, w \in Widths, h \in Heights : Enter("api", p, w, h)

\* the script is run: output = sys.argv[1] if len(sys.argv) > 1 else default
Main ==
    \E argv \in Argvs :
        Enter("main", IF Len(argv) > 1 THEN argv[2] ELSE DefaultOutput,
              DefaultWidth, DefaultHeight)

\* with open(svg_path, 'w') as f: f.write(svg_content)   (outside the try)
WriteSVG ==
    /\ pc = "write"
    /\ \E ok \in BOOLEAN :
        IF ok
        THEN /\ fs' = Put(fs, svg_path, "svg")
             /\ pc' = "run"
             /\ UNCHANGED raised
        ELSE /\ raised' = TRUE
             /\ pc' = "done"
             /\ UNCHANGED fs
    /\ UNCHANGED <<caller, output_path, width, height, svg_content, svg_path,
                   generated, ret, exit_status, printed, tool, tool_args,
                   invocations, renamed, removed, ncalls, prev>>

\* subprocess.run(['qlmanage', '-t', '-s', size, '-o', outdir, svg_path],
\*                capture_output=True, check=True)
RunTool ==
    /\ pc = "run"
    /\ LET args == [size |-> Str(Max(width, height)),
                    outdir |-> DirOrDot(output_path),
                    input |-> svg_path]
       IN /\ tool_args' = args
          /\ \E outcome \in ToolOutcomes :
                /\ tool' = outcome
                /\ fs' = IF outcome = "ok_file"
                         THEN Put(fs, ToolOutput(args), "png") ELSE fs
                /\ pc' = IF outcome \in {"ok_file", "ok_nofile"}
                         THEN "check" ELSE "fallback"
    /\ invocations' = invocations + 1
    /\ UNCHANGED <<caller, output_path, width, height, svg_content, svg_path,
                   generated, ret, raised, exit_status, printed, renamed,
                   removed, ncalls, prev>>

\* generated = svg_path + '.png'; if os.path.exists(generated):
CheckGenerated ==
    /\ pc = "check"
    /\ generated' = Generated(svg_path)
    /\ pc' = IF Exists(fs, Generated(svg_path)) THEN "rename" ELSE "fallback"
    /\ UNCHANGED <<fs, caller, output_path, width, height, svg_content,
                   svg_path, ret, raised, exit_status, printed, tool,
                   tool_args, invocations, renamed, removed, ncalls, prev>>

\* os.rename(generated, output_path)
Rename ==
    /\ pc = "rename"
    /\ \E ok \in BOOLEAN :
        /\ fs' = IF ok THEN OsRename(fs, generated, output_path) ELSE fs
        /\ renamed' = IF ok THEN "ok" ELSE "failed"
        /\ pc' = AfterRename(ok)
    /\ UNCHANGED <<caller, output_path, width, height, svg_content, svg_path,
                   generated, ret, raised, exit_status, printed, tool,
                   tool_args, invocations, removed, ncalls, prev>>

\* os.remove(svg_path); return True
Remove ==
    /\ pc = "remove"
    /\ \E ok \in BOOLEAN :
        /\ ok => Exists(fs, svg_path)
        /\ IF ok
           THEN /\ fs' = OsRemove(fs, svg_path)
                /\ removed' = "ok"
                /\ ret' = "True"
                /\ pc' = "done"
           ELSE /\ removed' = "failed"
                /\ pc' = "fallback"
                /\ UNCHANGED <<fs, ret>>
    /\ UNCHANGED <<caller, output_path, width, height, svg_content, svg_path,
                   generated, raised, exit_status, printed, tool, tool_args,
                   invocations, renamed, ncalls, prev>>

\* os.rename(svg_path, output_path.replace('.png', '.svg')); print; return False
\* (outside the try: a missing svg_path would raise)
Fallback ==
    /\ pc = "fallback"
    /\ IF Exists(fs, svg_path)
       THEN /\ fs' = OsRename(fs, svg_path, Replace(output_path, PNG, SVG))
            /\ printed' = Append(printed, <<FallbackNotice>>)
            /\ ret' = "False"
            /\ UNCHANGED raised
       ELSE /\ raised' = TRUE
            /\ UNCHANGED <<fs, printed, ret>>
    /\ pc' = "done"
    /\ UNCHANGED <<caller, output_path, width, height, svg_content, svg_path,
                   generated, exit_status, tool, tool_args, invocations,
                   renamed, removed, ncalls, prev>>

\* print(f"Created: {output}") and the end of the script; an exception that
\* left create_background ends the interpreter with status 1 instead
MainExit ==
    /\ pc = "done"
    /\ caller = "main"
    /\ IF raised
       THEN /\ exit_status' = 1
            /\ UNCHANGED printed
       ELSE /\ exit_status' = 0
            /\ printed' = Append(printed, <<CreatedPrefix, output_path>>)
    /\ pc' = "exited"
    /\ UNCHANGED <<fs, caller, output_path, width, height, svg_content,
                   svg_path, generated, ret, raised, tool, tool_args,
                   invocations, renamed, removed, ncalls, prev>>

Next ==
    \/ Call
    \/ Main
    \/ WriteSVG
    \/ RunTool
    \/ CheckGenerated
    \/ Rename
    \/ Remove
    \/ Fallback
    \/ MainExit

Spec == Init /\ [][Next]_vars

\* ---------------------------------------------------- vocabulary of the claims

RECURSIVE ParseInt(_)
ParseInt(s) ==
    IF s = <<>> THEN 0
    ELSE 10 * ParseInt(SubSeq(s, 1, Len(s) - 1))
         + (CHOOSE d \in 0..9 : DigitChar(d) = s[Len(s)])

EndsWith(s, suffix) ==
    /\ Len(s) >= Len(suffix)
    /\ SubSeq(s, Len(s) - Len(suffix) + 1, Len(s)) = suffix

\* output_path with its final ".png" extension replaced by ".svg"
WithSvgExtension(p) == SubSeq(p, 1, Len(p) - Len(PNG)) \o SVG

Elements(doc, t) == {i \in 1..Len(doc) : doc[i].tag = t}

TheElement(doc, t) == doc[CHOOSE i \in Elements(doc, t) : TRUE]

PngAtOutput == Exists(fs, output_path) /\ fs[File(output_path)] = "png"

SvgAtSvgPath == Exists(fs, svg_path) /\ fs[File(svg_path)] = "svg"

\* qlmanage exited 0 and wrote the file the code looks for
ToolProducedExpected ==
    /\ tool = "ok_file"
    /\ File(ToolOutput(tool_args)) = File(Generated(svg_path))

\* the three rasterization failures: tool missing, non-zero exit, exit 0 but
\* the expected file is not there
RasterizationFailed ==
    \/ tool \in {"missing", "nonzero"}
    \/ tool \in {"ok_file", "ok_nofile"} /\ generated # <<>> /\ renamed = "none"

\* an intermediate file left behind: the SVG beside a PNG at output_path, or
\* a file at <svg path>.png
Orphan ==
    \/ svg_path # output_path /\ Exists(fs, svg_path) /\ PngAtOutput
    \/ Exists(fs, Generated(svg_path))

\* ------------------------------------------------------------------ claims

\* C1: create_background never raises: whatever the write, the tool, the
\* rename and the remove do, the call ends by returning True or False.
C1_NeverRaises == CallOver => (~raised /\ ret \in {"True", "False"})

\* C2: when create_background returns, after any earlier calls, exactly one
\* of the two image files exists: the PNG at output_path or the SVG at the
\* derived .svg path.  Stated here for the paths that end in ".png", the
\* calls in which no write, rename or remove failed, and an earlier call (if
\* any) on the same output_path that did not fail either: the claim covers
\* more.
C2_ExactlyOneImage ==
    (/\ CallOver
     /\ Nominal
     /\ EndsWith(output_path, PNG)
     /\ ncalls > 1 => (prev.path = output_path /\ prev.nominal)) =>
        \/ PngAtOutput /\ ~SvgAtSvgPath
        \/ ~PngAtOutput /\ SvgAtSvgPath

\* C3: if the rasterizer exits successfully and produces <svg path>.png, the
\* call returns True, a file exists at output_path and none remains at the
\* .svg path or at <svg path>.png.  Stated here for the calls in which no
\* write, rename or remove failed, which is all the claim can be about.
C3_SuccessLeavesOnlyPng ==
    (CallOver /\ Nominal /\ ToolProducedExpected) =>
        /\ ret = "True"
        /\ Exists(fs, output_path)
        /\ ~Exists(fs, svg_path)
        /\ ~Exists(fs, Generated(svg_path))

\* C4: in each of the three rasterization failures the call returns False, a
\* file exists at output_path with its extension replaced by .svg, and no
\* PNG exists at output_path.  Stated for the paths that end in ".png".
C4_FallbackOutcome ==
    (CallOver /\ ~raised /\ RasterizationFailed /\ EndsWith(output_path, PNG)) =>
        /\ ret = "False"
        /\ Exists(fs, WithSvgExtension(output_path))
        /\ ~PngAtOutput

C6_ExitsZero == pc = "exited" => exit_status = 0

\* C7: for positive width and height the document has exactly one <svg> root
\* whose width and height are the requested values, one background rect of
\* the same size, one text element at x = floor(width / 2), and one dashed
\* line from (380,200) to (220,200) whatever the width and height.
C7_SvgShape ==
    pc # "idle" =>
        LET root == TheElement(svg_content, "svg")
            rect == TheElement(svg_content, "rect")
            text == TheElement(svg_content, "text")
            line == TheElement(svg_content, "line")
        IN /\ Cardinality(Elements(svg_content, "svg")) = 1
           /\ svg_content[1].tag = "svg"
           /\ ParseInt(root.attrs.width) = width
           /\ ParseInt(root.attrs.height) = height
           /\ Cardinality(Elements(svg_content, "rect")) = 1
           /\ ParseInt(rect.attrs.width) = width
           /\ ParseInt(rect.attrs.height) = height
           /\ Cardinality(Elements(svg_content, "text")) = 1
           /\ 2 * ParseInt(text.attrs.x) <= width
           /\ width < 2 * ParseInt(text.attrs.x) + 2
           /\ Cardinality(Elements(svg_content, "line")) = 1
           /\ line.attrs.dasharray = "10,5"
           /\ <<ParseInt(line.attrs.x1), ParseInt(line.attrs.y1)>> = <<380, 200>>
           /\ <<ParseInt(line.attrs.x2), ParseInt(line.attrs.y2)>> = <<220, 200>>

C7_Witness ==
    /\ pc = "run"
    /\ width = 1
    /\ height = DefaultHeight
    /\ TheElement(svg_content, "text").attrs.x = <<"0">>
    /\ TheElement(svg_content, "svg").attrs.height = <<"4", "0", "0">>

\* C8: the intermediate SVG is removed only after the rasterizer's output
\* has been renamed to output_path; when the tool fails, the expected file
\* is absent or the rename fails, the SVG is never deleted and is still
\* there when the call ends.
C8_RemoveOnlyAfterRename ==
    /\ [][(Exists(fs, svg_path) /\ ~Exists(fs', svg_path)) => renamed = "ok"]_vars
    /\ []((CallOver /\ ~raised /\ (RasterizationFailed \/ renamed = "failed")) =>
            (removed = "none" /\ SvgAtSvgPath))

C8_Witness ==
    /\ CallOver
    /\ tool = "ok_file"
    /\ renamed = "failed"
    /\ removed = "none"
    /\ ret = "False"
    /\ SvgAtSvgPath
    /\ Exists(fs, generated)

\* C9: the rasterizer is run exactly once per call, after the SVG is
\* written, with size max(width, height) and output directory
\* dirname(output_path) or '.'; the file the code then looks for lies in
\* that directory, so a file the tool produces there is always found.
C9_ToolOutputFound ==
    (CallOver /\ ~raised) =>
        /\ invocations = 1
        /\ ParseInt(tool_args.size) = Max(width, height)
        /\ tool_args.outdir = DirOrDot(output_path)
        /\ tool_args.input = svg_path
        /\ tool = "ok_file" =>
              /\ DirOrDot(Generated(svg_path)) = tool_args.outdir
              /\ renamed # "none"

\* C10: for every output_path the intermediate SVG path differs from it, and
\* only in the final extension, so whenever create_background returns True
\* a file exists at output_path.
C10_SvgPathDistinct ==
    (CallOver /\ ret = "True") =>
        /\ svg_path # output_path
        /\ EndsWith(svg_path, SVG)
        /\ SubSeq(svg_path, 1, Len(svg_path) - Len(SVG))
             = SubSeq(output_path, 1, Len(output_path) - Len(SVG))
        /\ Exists(fs, output_path)

====
